---- MODULE Spec2Model ----
(***************************************************************************)
(* scripts/convert_clone_file.py: convert_file(input, output) reads a      *)
(* Deckard clusters file line by line and writes "start,count,file"        *)
(* records for Genprog, with single blank separator lines.                 *)
(*                                                                         *)
(* Text is modelled character by character: a token, an output record and  *)
(* the contents of the output file are sequences of one-character strings. *)
(* An input line is represented by the result of line.split(), the         *)
(* sequence of its whitespace-delimited tokens.                            *)
(***************************************************************************)
EXTENDS Integers, Sequences, FiniteSets

VARIABLES
    pc,           \* position in convert_file: "for" (the loop header), "body"
                  \* (inside an iteration), "done" (returned), or the name of
                  \* the exception that ended the call
    input_file,   \* "open" or "closed"
    output_file,  \* "open" or "closed"
    contents,     \* the characters written to output_file so far
    stdout,       \* the diagnostics printed so far: <<message, split line>>
    consumed,     \* the lines the for loop has taken from input_file so far
    write_blank,
    write_line,
    split_line,
    index,
    filename,
    startline,
    num_lines,
    wrote         \* history: wrote[k] is the number of the output line written
                  \* while input line k was processed, 0 when none was

vars == <<pc, input_file, output_file, contents, stdout, consumed, write_blank,
          write_line, split_line, index, filename, startline, num_lines, wrote>>

-----------------------------------------------------------------------------
(* Bounds of the model. *)

\* the longest input, in lines, of the specification Spec
MaxLines == 4

\* the longest line, in tokens, of the specification SpecScan
MaxToks == 4

-----------------------------------------------------------------------------
(* Program constants. *)

\* startline = -1, num_lines = -1: the value of a field no token has set
Unset == -1

\* tok[:4]
PrefixLen == 4

\* len(split_tok) != 3
NumParts == 3

FILE == <<"F", "I", "L", "E">>

LINE == <<"L", "I", "N", "E">>

BAD_LINE_DELIMITER == "BAD LINE DELIMITER AT LINE: "

NO_FILENAME == "NO FILENAME FOUND AT LINE: "

NO_STARTLINE == "NO STARTLINE FOUND AT LINE: "

NO_NUM_LINES == "NO NUM_LINES FOUND AT LINE: "

-----------------------------------------------------------------------------
(* Python's string and integer operations, as the code uses them. *)

Min(a, b) == IF a <= b THEN a ELSE b

\* tok[:4]
Prefix(tok) == SubSeq(tok, 1, Min(PrefixLen, Len(tok)))

\* s.split(sep) for a one-character separator
RECURSIVE Split(_, _)
Split(s, sep) ==
    LET at == {i \in 1..Len(s) : s[i] = sep}
    IN  IF at = {} THEN <<s>>
        ELSE LET i == CHOOSE m \in at : \A n \in at : m <= n
             IN  <<SubSeq(s, 1, i - 1)>> \o Split(SubSeq(s, i + 1, Len(s)), sep)

DigitChars == <<"0", "1", "2", "3", "4", "5", "6", "7", "8", "9">>

IsDigit(c) == \E d \in 1..Len(DigitChars) : DigitChars[d] = c

DigitVal(c) == (CHOOSE d \in 1..Len(DigitChars) : DigitChars[d] = c) - 1

Unsigned(s) == IF s # <<>> /\ s[1] \in {"+", "-"} THEN Tail(s) ELSE s

\* whether int(s) returns: an optional sign, then one or more decimal digits
IsIntLiteral(s) ==
    /\ Unsigned(s) # <<>>
    /\ \A i \in 1..Len(Unsigned(s)) : IsDigit(Unsigned(s)[i])

RECURSIVE DecVal(_)
DecVal(ds) ==
    IF ds = <<>> THEN 0
    ELSE 10 * DecVal(SubSeq(ds, 1, Len(ds) - 1)) + DigitVal(ds[Len(ds)])

\* int(s), for s with IsIntLiteral(s)
int(s) == IF s[1] = "-" THEN 0 - DecVal(Unsigned(s)) ELSE DecVal(Unsigned(s))

RECURSIVE DecStr(_)
DecStr(n) ==
    IF n < 10 THEN <<DigitChars[n + 1]>>
    ELSE DecStr(n \div 10) \o <<DigitChars[(n % 10) + 1]>>

\* "%d" % n
FormatD(n) == IF n < 0 THEN <<"-">> \o DecStr(0 - n) ELSE DecStr(n)

\* mutant of FormatRecord: the two numbers in the other order
FormatRecordSwapped(s, c, f) ==
    FormatD(c) \o <<",">> \o FormatD(s) \o <<",">> \o f \o <<"\n">>

\* "%d,%d,%s\n" % (startline, num_lines, filename)
FormatRecord(s, c, f) ==
    FormatD(s) \o <<",">> \o FormatD(c) \o <<",">> \o f \o <<"\n">>

-----------------------------------------------------------------------------
(* One iteration of "for tok in split_line", on the token at position i    *)
(* (counted from 0, as index is).                                          *)

\* mutant of WellFormed: len(split_tok) < 3 in place of len(split_tok) != 3
WellFormedAtLeast(split_tok) == Len(split_tok) >= NumParts

\* len(split_tok) != 3 is false
WellFormed(split_tok) == Len(split_tok) = NumParts

TokStep(toks, i, fn, sl, nl) ==
    LET tok       == toks[i + 1]
        isFile    == tok = FILE
        \* split_line[index+1] with index+1 = len(split_line)
        outOfRange == isFile /\ i + 2 > Len(toks)
        isLine    == Prefix(tok) = LINE
        split_tok == Split(tok, ":")
        good      == isLine /\ WellFormed(split_tok)
        int1Fails == good /\ ~IsIntLiteral(split_tok[2])
        int2Fails == good /\ ~int1Fails /\ ~IsIntLiteral(split_tok[3])
    IN  [raised    |-> IF outOfRange THEN "IndexError"
                       ELSE IF int1Fails \/ int2Fails THEN "ValueError"
                       ELSE "",
         filename  |-> IF isFile /\ ~outOfRange THEN toks[i + 2] ELSE fn,
         startline |-> IF good /\ ~int1Fails THEN int(split_tok[2]) ELSE sl,
         num_lines |-> IF good /\ ~int1Fails /\ ~int2Fails
                       THEN int(split_tok[3]) ELSE nl,
         bad       |-> isLine /\ ~WellFormed(split_tok)]

\* the lines of a text in which every line ends with "\n"
TextLines(text) ==
    LET parts == Split(text, "\n") IN SubSeq(parts, 1, Len(parts) - 1)

OutLines == TextLines(contents)

\* the call has ended by an exception
Raised == pc \in {"IndexError", "ValueError"}

-----------------------------------------------------------------------------
(* The inputs. *)

TokA == <<"a">>

Tok12 == LINE \o <<":", "1", ":", "2">>

Tok07 == LINE \o <<":", "0", "7", ":", "2">>

TokNeg1 == LINE \o <<":", "-", "1", ":", "5">>

TokNeg2 == LINE \o <<":", "3", ":", "-", "1">>

Tok4Parts == LINE \o <<":", "1", ":", "2", ":", "3">>

Tok1Part == LINE \o <<"X">>

TokNotInt == LINE \o <<":", "1", ":", "x">>

\* the tokens the lines of SpecScan are made of
TokPool == {FILE, TokA, Tok12, Tok07, TokNeg1, TokNeg2, Tok4Parts, Tok1Part,
            TokNotInt}

RECURSIVE SeqsUpTo(_, _)
SeqsUpTo(S, n) ==
    IF n = 0 THEN {<<>>}
    ELSE LET shorter == SeqsUpTo(S, n - 1)
         IN  shorter \cup {Append(s, x) : s \in shorter, x \in S}

ScanLines == SeqsUpTo(TokPool, MaxToks)

\* the lines the inputs of Spec are made of: blank, two accepted lines, and
\* lines rejected or failing in each of the ways the code distinguishes
SampleLines ==
    { <<>>,
      <<FILE, TokA, Tok12>>,
      <<Tok07, <<"x">>, FILE, <<"b">>>>,
      <<TokA>>,
      <<FILE, TokA, Tok4Parts>>,
      <<FILE, TokA, TokNeg1>>,
      <<Tok12, FILE>>,
      <<FILE, TokA, TokNotInt>> }

-----------------------------------------------------------------------------
(* convert_file *)

\* mutant of Init: write_blank = True before the loop
InitBlankAllowed ==
    /\ pc = "for"
    /\ input_file = "open"
    /\ output_file = "open"
    /\ contents = <<>>
    /\ stdout = <<>>
    /\ consumed = <<>>
    /\ write_blank = TRUE
    /\ write_line = TRUE
    /\ split_line = <<>>
    /\ index = 0
    /\ filename = <<>>
    /\ startline = Unset
    /\ num_lines = Unset
    /\ wrote = <<>>

\* the state when the loop is entered: both files open, nothing written; the
\* variables of an iteration hold what the first iteration assigns them
Init ==
    /\ pc = "for"
    /\ input_file = "open"
    /\ output_file = "open"
    /\ contents = <<>>
    /\ stdout = <<>>
    /\ consumed = <<>>
    /\ write_blank = FALSE
    /\ write_line = TRUE
    /\ split_line = <<>>
    /\ index = 0
    /\ filename = <<>>
    /\ startline = Unset
    /\ num_lines = Unset
    /\ wrote = <<>>

\* for line in input_file: one more line, then the assignments before the if
ReadLine(pool, limit) ==
    /\ pc = "for"
    /\ Len(consumed) < limit
    /\ \E line \in pool :
        /\ consumed' = Append(consumed, line)
        /\ split_line' = line
    /\ write_line' = TRUE
    /\ index' = 0
    /\ filename' = <<>>
    /\ startline' = Unset
    /\ num_lines' = Unset
    /\ wrote' = Append(wrote, 0)
    /\ pc' = "body"
    /\ UNCHANGED <<input_file, output_file, contents, stdout, write_blank>>

\* mutant of BlankLine: write_blank is not cleared after the blank line
BlankLineKeepsFlag ==
    /\ pc = "body"
    /\ Len(split_line) = 0
    /\ IF write_blank
       THEN /\ contents' = contents \o <<"\n">>
            /\ wrote' = [wrote EXCEPT ![Len(wrote)] = Len(OutLines) + 1]
       ELSE UNCHANGED <<contents, wrote>>
    /\ pc' = "for"
    /\ UNCHANGED <<input_file, output_file, stdout, consumed, write_line,
                   split_line, index, filename, startline, num_lines,
                   write_blank>>

\* mutant of BlankLine: the blank line is written without testing write_blank
BlankLineUnconditional ==
    /\ pc = "body"
    /\ Len(split_line) = 0
    /\ contents' = contents \o <<"\n">>
    /\ write_blank' = FALSE
    /\ wrote' = [wrote EXCEPT ![Len(wrote)] = Len(OutLines) + 1]
    /\ pc' = "for"
    /\ UNCHANGED <<input_file, output_file, stdout, consumed, write_line,
                   split_line, index, filename, startline, num_lines>>

\* if (len(split_line) == 0): if (write_blank): ...
BlankLine ==
    /\ pc = "body"
    /\ Len(split_line) = 0
    /\ IF write_blank
       THEN /\ contents' = contents \o <<"\n">>
            /\ write_blank' = FALSE
            /\ wrote' = [wrote EXCEPT ![Len(wrote)] = Len(OutLines) + 1]
       ELSE UNCHANGED <<contents, write_blank, wrote>>
    /\ pc' = "for"
    /\ UNCHANGED <<input_file, output_file, stdout, consumed, write_line,
                   split_line, index, filename, startline, num_lines>>

\* one iteration of "for tok in split_line" that raises nothing
ScanToken ==
    /\ pc = "body"
    /\ index < Len(split_line)
    /\ LET r == TokStep(split_line, index, filename, startline, num_lines)
       IN  /\ r.raised = ""
           /\ filename' = r.filename
           /\ startline' = r.startline
           /\ num_lines' = r.num_lines
           /\ stdout' = IF r.bad
                        THEN Append(stdout, <<BAD_LINE_DELIMITER, split_line>>)
                        ELSE stdout
    /\ index' = index + 1
    /\ UNCHANGED <<pc, input_file, output_file, contents, consumed, write_blank,
                   write_line, split_line, wrote>>

\* one iteration of "for tok in split_line" in which split_line[index+1] or
\* int() raises: nothing catches it, and convert_file ends there
ScanRaises ==
    /\ pc = "body"
    /\ index < Len(split_line)
    /\ LET r == TokStep(split_line, index, filename, startline, num_lines)
       IN  /\ r.raised # ""
           /\ filename' = r.filename
           /\ startline' = r.startline
           /\ num_lines' = r.num_lines
           /\ pc' = r.raised
    /\ UNCHANGED <<input_file, output_file, contents, stdout, consumed,
                   write_blank, write_line, split_line, index, wrote>>

\* the three checks after the scan
Diagnostics(fn, sl, nl, line) ==
    (IF fn = <<>> THEN <<<<NO_FILENAME, line>>>> ELSE <<>>)
    \o (IF sl = Unset THEN <<<<NO_STARTLINE, line>>>> ELSE <<>>)
    \o (IF nl = Unset THEN <<<<NO_NUM_LINES, line>>>> ELSE <<>>)

\* write_line after the three checks
Complete(fn, sl, nl) == fn # <<>> /\ sl # Unset /\ nl # Unset

\* mutant of Validate: the record is written and write_blank is not set
ValidateNoFlag ==
    /\ pc = "body"
    /\ Len(split_line) > 0
    /\ index = Len(split_line)
    /\ stdout' = stdout \o Diagnostics(filename, startline, num_lines, split_line)
    /\ write_line' = Complete(filename, startline, num_lines)
    /\ IF write_line'
       THEN /\ contents' = contents \o FormatRecord(startline, num_lines, filename)
            /\ wrote' = [wrote EXCEPT ![Len(wrote)] = Len(OutLines) + 1]
       ELSE UNCHANGED <<contents, wrote>>
    /\ pc' = "for"
    /\ UNCHANGED <<input_file, output_file, consumed, split_line, index,
                   filename, startline, num_lines, write_blank>>

\* the checks after the scan, and "if write_line: ..."
Validate ==
    /\ pc = "body"
    /\ Len(split_line) > 0
    /\ index = Len(split_line)
    /\ stdout' = stdout \o Diagnostics(filename, startline, num_lines, split_line)
    /\ write_line' = Complete(filename, startline, num_lines)
    /\ IF write_line'
       THEN /\ write_blank' = TRUE
            /\ contents' = contents \o FormatRecord(startline, num_lines, filename)
            /\ wrote' = [wrote EXCEPT ![Len(wrote)] = Len(OutLines) + 1]
       ELSE UNCHANGED <<write_blank, contents, wrote>>
    /\ pc' = "for"
    /\ UNCHANGED <<input_file, output_file, consumed, split_line, index,
                   filename, startline, num_lines>>

\* the for loop ends: input_file.close(); output_file.close(); return
Close ==
    /\ pc = "for"
    /\ input_file' = "closed"
    /\ output_file' = "closed"
    /\ pc' = "done"
    /\ UNCHANGED <<contents, stdout, consumed, write_blank, write_line,
                   split_line, index, filename, startline, num_lines, wrote>>

Next ==
    \/ ReadLine(SampleLines, MaxLines)
    \/ BlankLine
    \/ ScanToken
    \/ ScanRaises
    \/ Validate
    \/ Close

\* inputs of up to MaxLines lines drawn from SampleLines
Spec == Init /\ [][Next]_vars

NextScan ==
    \/ ReadLine(ScanLines, 1)
    \/ BlankLine
    \/ ScanToken
    \/ ScanRaises
    \/ Validate
    \/ Close

\* inputs of one line of up to MaxToks tokens drawn from TokPool
SpecScan == Init /\ [][NextScan]_vars

-----------------------------------------------------------------------------
(* The vocabulary of the claims: what a line of input says, read off the    *)
(* line itself and not off the scan.                                        *)

IsBlank(line) == Len(line) = 0

\* a token that starts with LINE
IsLineTok(tok) == Len(tok) >= 4 /\ SubSeq(tok, 1, 4) = LINE

\* LINE:<a>:<b>
ThreeParts(tok) == IsLineTok(tok) /\ Len(Split(tok, ":")) = 3

\* a token that starts with LINE and is not LINE:<a>:<b>
Malformed(tok) == IsLineTok(tok) /\ Len(Split(tok, ":")) # 3

\* LINE:<s>:<c> with integers s and c
IntParts(tok) ==
    /\ ThreeParts(tok)
    /\ IsIntLiteral(Split(tok, ":")[2])
    /\ IsIntLiteral(Split(tok, ":")[3])

\* the positions of the FILE tokens that a token follows
FilePos(line) == {i \in 1..(Len(line) - 1) : line[i] = FILE}

\* the positions of the LINE:<a>:<b> tokens
LinePos(line) == {i \in 1..Len(line) : ThreeParts(line[i])}

MalformedPos(line) == {i \in 1..Len(line) : Malformed(line[i])}

Max(S) == CHOOSE m \in S : \A n \in S : n <= m

\* the fields of a line, the last FILE and the last LINE:<s>:<c> winning
FileOf(line) == line[Max(FilePos(line)) + 1]

StartOf(line) == int(Split(line[Max(LinePos(line))], ":")[2])

CountOf(line) == int(Split(line[Max(LinePos(line))], ":")[3])

\* the text "s,c,f" of a record, without its newline
RecordText(s, c, f) == FormatD(s) \o <<",">> \o FormatD(c) \o <<",">> \o f

RecordOf(line) == RecordText(StartOf(line), CountOf(line), FileOf(line))

\* a data-bearing line the validation accepts: the three fields are found
\* and neither number is the value that stands for "unset"
Accepted(line) ==
    /\ FilePos(line) # {}
    /\ LinePos(line) # {}
    /\ StartOf(line) # Unset
    /\ CountOf(line) # Unset

\* the records a sequence of lines yields, in order
RECURSIVE ExpectedRecords(_)
ExpectedRecords(lines) ==
    IF lines = <<>> THEN <<>>
    ELSE (IF ~IsBlank(Head(lines)) /\ Accepted(Head(lines))
          THEN <<RecordOf(Head(lines))>> ELSE <<>>)
         \o ExpectedRecords(Tail(lines))

IsData(outline) == outline # <<>>

DataRecords(outlines) == SelectSeq(outlines, IsData)

\* the loop is between two lines, or has ended normally
BetweenLines == pc \in {"for", "done"}

\* input line k has been processed to its end
Processed(k) == k < Len(consumed) \/ (k = Len(consumed) /\ BetweenLines)

\* input line k is data-bearing and no record was written for it
Rejected(k) == ~IsBlank(consumed[k]) /\ wrote[k] = 0

\* input line k is data-bearing and a record was written for it
Recorded(k) == ~IsBlank(consumed[k]) /\ wrote[k] # 0

\* the number of "BAD LINE DELIMITER" diagnostics printed
BadDelimiterCount ==
    Len(SelectSeq(stdout, LAMBDA d : d[1] = BAD_LINE_DELIMITER))

-----------------------------------------------------------------------------
(* The claims. *)

\* C1: at every point of the run the output is empty or starts with a data
\* record; its first line is never blank, whatever blank, accepted and
\* rejected lines the input starts with.
C1_NoLeadingBlank ==
    OutLines = <<>> \/ (IsData(OutLines[1]) /\ Len(Split(OutLines[1], ",")) >= 3)

\* C1 witness: the input starts with two blank lines and a record was written.
C1_Witness ==
    /\ pc = "done"
    /\ Len(consumed) >= 3
    /\ IsBlank(consumed[1])
    /\ IsBlank(consumed[2])
    /\ OutLines # <<>>

\* C2: at every point of the run no two adjacent lines of the output are
\* blank, also when rejected data-bearing lines separate the blank input lines.
C2_NoAdjacentBlanks ==
    \A i \in 1..(Len(OutLines) - 1) : IsData(OutLines[i]) \/ IsData(OutLines[i + 1])

\* C2 witness: a blank line that wrote the separator, then a rejected line,
\* then another blank line, all processed.
C2_Witness ==
    \E k \in 1..(Len(consumed) - 2) :
        /\ IsBlank(consumed[k]) /\ wrote[k] # 0
        /\ Rejected(k + 1)
        /\ IsBlank(consumed[k + 2])
        /\ Processed(k + 2)

\* C3: when N >= 1 blank lines separate two data-bearing lines and both have
\* their record in the output, exactly one blank line stands between the two
\* records.
C3_OneBlankBetween ==
    \A i, j \in 1..Len(consumed) :
        ( /\ i + 1 < j
          /\ Processed(j)
          /\ Recorded(i)
          /\ Recorded(j)
          /\ \A k \in (i + 1)..(j - 1) : IsBlank(consumed[k]) )
        => /\ wrote[j] = wrote[i] + 2
           /\ OutLines[wrote[i]] = RecordOf(consumed[i])
           /\ OutLines[wrote[i] + 1] = <<>>
           /\ OutLines[wrote[j]] = RecordOf(consumed[j])

\* C3 witness: two recorded lines with two blank lines between them.
C3_Witness ==
    \E i \in 1..(Len(consumed) - 3) :
        /\ Recorded(i)
        /\ IsBlank(consumed[i + 1])
        /\ IsBlank(consumed[i + 2])
        /\ Recorded(i + 3)
        /\ Processed(i + 3)

\* the lines C4 is about, read narrowly: one FILE token, followed by a
\* filename f that is neither FILE nor a LINE token; one LINE token, which is
\* LINE:<s>:<c> with integers s and c; any other token is neither
C4_Shape(line) ==
    /\ Cardinality({i \in 1..Len(line) : line[i] = FILE}) = 1
    /\ Cardinality(FilePos(line)) = 1
    /\ ~IsLineTok(FileOf(line))
    /\ Cardinality({i \in 1..Len(line) : IsLineTok(line[i])}) = 1
    /\ \A i \in 1..Len(line) : IsLineTok(line[i]) => IntParts(line[i])

\* C4: for every line with the adjacent pair FILE f and a token LINE:s:c with
\* integers s and c, in either order and with other tokens around them, the
\* record "s,c,f" is written for that line.
C4_RecordWritten ==
    \A k \in 1..Len(consumed) :
        (Processed(k) /\ C4_Shape(consumed[k]))
        => /\ wrote[k] # 0
           /\ OutLines[wrote[k]] = RecordOf(consumed[k])

\* C5, as claimed: for every processed line with a malformed LINE token, the
\* diagnostic is printed, startline and num_lines are unset and no record is
\* written, whatever the other tokens are.
C5_Original ==
    \A k \in 1..Len(consumed) :
        (k = Len(consumed) /\ Processed(k) /\ MalformedPos(consumed[k]) # {})
        => /\ BadDelimiterCount >= 1
           /\ startline = Unset
           /\ num_lines = Unset
           /\ wrote[k] = 0

\* C5, amended: for every line with a malformed LINE token and no token
\* LINE:<a>:<b>, once the line has been processed, or the call has ended on
\* it, the diagnostic has been printed for each malformed token, startline
\* and num_lines are unset and no record is written.
C5_Amended ==
    \A k \in 1..Len(consumed) :
        ( /\ k = Len(consumed)
          /\ Processed(k) \/ Raised
          /\ MalformedPos(consumed[k]) # {}
          /\ LinePos(consumed[k]) = {} )
        => /\ BadDelimiterCount = Cardinality(MalformedPos(consumed[k]))
           /\ \A d \in 1..Len(stdout) :
                  stdout[d][1] = BAD_LINE_DELIMITER => stdout[d][2] = consumed[k]
           /\ startline = Unset
           /\ num_lines = Unset
           /\ wrote[k] = 0

\* C5 witness: a processed line with a filename, a malformed LINE token and
\* no token LINE:<a>:<b>.
C5_Witness ==
    /\ pc = "for"
    /\ Len(consumed) = 1
    /\ MalformedPos(consumed[1]) # {}
    /\ LinePos(consumed[1]) = {}
    /\ filename # <<>>
    /\ BadDelimiterCount >= 1

\* C6: on every input whose LINE:<a>:<b> tokens carry integers only, no
\* exception ends the call, also when FILE is the last token of a line.
C6_NeverHalts ==
    (\A k \in 1..Len(consumed) : \A i \in LinePos(consumed[k]) :
         IntParts(consumed[k][i]))
    => ~Raised

\* C7: when the call has ended, by return or by an exception, both files are
\* closed.
C7_BothClosed ==
    (pc = "done" \/ Raised) => (input_file = "closed" /\ output_file = "closed")

\* C8: when the run completes, the data records of the output are exactly the
\* records of the accepted data-bearing lines of the input, in input order.
C8_RecordsInOrder ==
    pc = "done" => DataRecords(OutLines) = ExpectedRecords(consumed)

\* C8 witness: a completed run with two different records and a rejected line
\* between the lines they come from.
C8_Witness ==
    /\ pc = "done"
    /\ \E i, j, k \in 1..Len(consumed) :
        /\ i < j /\ j < k
        /\ Recorded(i) /\ Rejected(j) /\ Recorded(k)
        /\ OutLines[wrote[i]] # OutLines[wrote[k]]

\* C9: for every processed line on which the scan has set all three fields (a
\* FILE token with a token after it, a token LINE:<s>:<c>), the record
\* "s,c,filename" is written and write_blank is true, whatever the integers
\* s and c are.
C9_AllSetWritten ==
    \A k \in 1..Len(consumed) :
        ( /\ k = Len(consumed)
          /\ Processed(k)
          /\ FilePos(consumed[k]) # {}
          /\ LinePos(consumed[k]) # {} )
        => /\ wrote[k] # 0
           /\ OutLines[wrote[k]] = RecordOf(consumed[k])
           /\ write_blank

\* C10: write_blank is true exactly when the output is not empty and its last
\* line is a data record; and a blank line that follows a recorded line and
\* then only rejected lines writes the blank separator right after the record.
C10_FlagTracksLastLine ==
    /\ write_blank = (OutLines # <<>> /\ IsData(OutLines[Len(OutLines)]))
    /\ \A i, j \in 1..Len(consumed) :
        ( /\ i < j
          /\ Processed(j)
          /\ Recorded(i)
          /\ IsBlank(consumed[j])
          /\ \A k \in (i + 1)..(j - 1) : Rejected(k) )
        => wrote[j] = wrote[i] + 1

\* C10 witness: a recorded line, a rejected line, then a blank line that wrote
\* the separator.
C10_Witness ==
    \E i \in 1..(Len(consumed) - 2) :
        /\ Recorded(i)
        /\ Rejected(i + 1)
        /\ IsBlank(consumed[i + 2])
        /\ wrote[i + 2] # 0

====
